---------------------------- MODULE Spec2Model ----------------------------
(***************************************************************************)
(* Model of the ConversationRelay transport                               *)
(* (src/src/pipecat_conversation_relay).                                  *)
(*                                                                         *)
(*   input_transport.py   ConversationRelayInputTransport: start / stop / *)
(*                        cancel and the background receive loop          *)
(*   output_transport.py  ConversationRelayOutputTransport: process_frame *)
(*                        and the explicit send_* operations              *)
(*                                                                         *)
(* Python values: a string that may be None is None or Str(s).  The text  *)
(* of a voicePrompt is a sequence of characters, so that str.strip() is   *)
(* computed; every other string is opaque.  A JSON object is a function   *)
(* from its keys, and dict.get is Get.                                     *)
(*                                                                         *)
(* asyncio runs one coroutine at a time and switches only at an await that *)
(* suspends, so an action is the code between two suspension points: the   *)
(* receive loop suspends in iter_text() and in a user callback, an         *)
(* outbound operation suspends in websocket.send_json().  push_frame and  *)
(* the base-class calls are the pipeline's and are taken as one step.      *)
(***************************************************************************)
EXTENDS Naturals, Sequences, FiniteSets, TLC

VARIABLES
    client_state,   \* websocket.client_state, shared by both relays
    callbacks,      \* input: the registered callbacks (a set of their names)
    session_id,     \* input: _session_id
    call_sid,       \* input: _call_sid
    initialized,    \* input: _initialized
    receive_task,   \* input: _receive_task (None or Task)
    task_pc,        \* where the coroutine _receive_messages is
    message,        \* the loop's local `message` (None before the first)
    inlog,          \* what the input relay did, in order
    interruptible,  \* output: _interruptible
    out_pc,         \* where the outbound operation in progress is
    out_op,         \* the outbound operation in progress (None when idle)
    outlog,         \* what the output relay did, in order
    transport,      \* the ConversationRelayTransport and the objects it refers
                    \* to (None when the relays were constructed on their own)
    facade_log      \* the facade's construction and what its accessors returned

in_vars  == <<callbacks, session_id, call_sid, initialized, receive_task,
              task_pc, message, inlog>>
out_vars == <<interruptible, out_pc, out_op, outlog>>
facade_vars == <<transport, facade_log>>
vars     == <<client_state, callbacks, session_id, call_sid, initialized,
              receive_task, task_pc, message, inlog, interruptible,
              out_pc, out_op, outlog, transport, facade_log>>

---------------------------------------------------------------------------
(* Bounds *)

MaxMsgs    == 2    \* inbound payloads delivered by iter_text()
MaxOps     == 3    \* outbound operations invoked
MaxCloses  == 2    \* calls of websocket.close()
MaxTextLen == 2    \* characters in a voicePrompt
MaxCalls   == 3    \* calls of start(), stop() and cancel() that are logged
MaxGets    == 2    \* calls of the facade's input() and output()

---------------------------------------------------------------------------
(* Python values *)

None   == [none |-> TRUE]
Str(s) == [str |-> s]
Task   == [task |-> "_receive_messages"]

CONNECTED    == "CONNECTED"
DISCONNECTED == "DISCONNECTED"

\* dict.get(key, default)
Get(m, k, default) == IF k \in DOMAIN m THEN m[k] ELSE default

Whitespace == {" "}
Chars      == {" ", "h"}

RECURSIVE lstrip(_)
lstrip(s) == IF s # <<>> /\ Head(s) \in Whitespace THEN lstrip(Tail(s)) ELSE s

RECURSIVE rstrip(_)
rstrip(s) ==
    IF s # <<>> /\ s[Len(s)] \in Whitespace
    THEN rstrip(SubSeq(s, 1, Len(s) - 1))
    ELSE s

\* str.strip()
strip(s) == rstrip(lstrip(s))

Int(n)  == [int |-> n]
Bool(b) == [bool |-> b]

\* Python truth value of a JSON scalar (`if not last`)
Truthy(v) ==
    IF "bool" \in DOMAIN v THEN v.bool
    ELSE IF "none" \in DOMAIN v THEN FALSE
    ELSE IF "int" \in DOMAIN v THEN v.int # 0
    ELSE TRUE
Map(f) == [map |-> f]

---------------------------------------------------------------------------
(* Inbound payloads: what websocket.iter_text() can deliver *)

\* A text frame json.loads rejects, one it decodes to a value that is not an
\* object, and one it decodes to the object d.
NotJson     == [unparseable |-> "{oops"]
JsonList    == [parsed |-> "list"]
JsonDict(d) == [parsed |-> "dict", dict |-> d]

Absent == [absent |-> TRUE]
Field(k, v) == IF v = Absent THEN <<>> ELSE (k :> v)

Texts == UNION { [1..n -> Chars] : n \in 0..MaxTextLen }

SetupFull ==
    [type |-> Str("setup"), sessionId |-> Str("VX1"), callSid |-> Str("CA1"),
     accountSid |-> Str("AC1"), from |-> Str("+1555"), to |-> Str("+1666"),
     direction |-> Str("inbound"), callStatus |-> Str("RINGING"),
     callType |-> Str("PSTN"), callerName |-> Str("Ann"),
     forwardedFrom |-> Str("+1777"), parentCallSid |-> Str("CA0"),
     customParameters |-> Map("k" :> "v")]
SetupMin  == [type |-> Str("setup"), sessionId |-> Str("VX2"), callSid |-> Str("CA2")]
SetupBare == [type |-> Str("setup"), direction |-> Str("outbound")]
SetupMsgs == {SetupFull, SetupMin, SetupBare}

PromptMsg(v, l, g) ==
    ("type" :> Str("prompt")) @@ Field("voicePrompt", v) @@ Field("last", l)
        @@ Field("lang", g)
\* every prompt with a voicePrompt of at most MaxTextLen characters
PromptMsgs ==
    { PromptMsg(v, l, Absent) :
        v \in {Str(t) : t \in Texts} \cup {None, Absent},
        l \in {Bool(TRUE), Bool(FALSE), Absent} }
    \cup { PromptMsg(Str(<<"h">>), l, Str("en-US")) : l \in {Bool(TRUE), Bool(FALSE)} }

\* one prompt of each kind: accepted, blank, null and interim
SomePromptMsgs ==
    { PromptMsg(Str(<<"h">>), Bool(TRUE), Str("en-US")),
      PromptMsg(Str(<<" ">>), Bool(TRUE), Absent),
      PromptMsg(None, Bool(TRUE), Absent),
      PromptMsg(Str(<<"h">>), Bool(FALSE), Absent) }

InterruptMsgs ==
    { [type |-> Str("interrupt"), utteranceUntilInterrupt |-> Str("Life is"),
       durationUntilInterruptMs |-> Int(460)],
      [type |-> Str("interrupt")] }
DtmfMsgs  == { [type |-> Str("dtmf"), digit |-> Str("1")], [type |-> Str("dtmf")] }
ErrorMsgs == { [type |-> Str("error"), description |-> Str("boom")],
               [type |-> Str("error")] }
OtherMsgs == { [type |-> Str("bogus")], [token |-> Str("x")] }

Dicts    == SetupMsgs \cup SomePromptMsgs \cup InterruptMsgs \cup DtmfMsgs
                \cup ErrorMsgs \cup OtherMsgs
Payloads == {NotJson, JsonList} \cup { JsonDict(d) : d \in Dicts }
PromptPayloads == { JsonDict(d) : d \in PromptMsgs }

---------------------------------------------------------------------------
(* Frames pushed downstream and the events handed to the callbacks *)

CancelFrame == [frame |-> "CancelFrame"]
ErrorFrame(error) == [frame |-> "ErrorFrame", error |-> error]
TranscriptionFrame(text, user_id, timestamp, language) ==
    [frame |-> "TranscriptionFrame", text |-> text, user_id |-> user_id,
     timestamp |-> timestamp, language |-> language]

\* SetupEventData with the two numbers exchanged
SetupEventData_swapped(m) ==
    [session_id        |-> Get(m, "sessionId", Str("")),
     call_sid          |-> Get(m, "callSid", Str("")),
     account_sid       |-> Get(m, "accountSid", None),
     from_number       |-> Get(m, "to", None),
     to_number         |-> Get(m, "from", None),
     direction         |-> Get(m, "direction", None),
     call_status       |-> Get(m, "callStatus", None),
     call_type         |-> Get(m, "callType", None),
     caller_name       |-> Get(m, "callerName", None),
     forwarded_from    |-> Get(m, "forwardedFrom", None),
     parent_call_sid   |-> Get(m, "parentCallSid", None),
     custom_parameters |-> Get(m, "customParameters", Map(<<>>))]

SetupEventData(m) ==
    [session_id        |-> Get(m, "sessionId", Str("")),
     call_sid          |-> Get(m, "callSid", Str("")),
     account_sid       |-> Get(m, "accountSid", None),
     from_number       |-> Get(m, "from", None),
     to_number         |-> Get(m, "to", None),
     direction         |-> Get(m, "direction", None),
     call_status       |-> Get(m, "callStatus", None),
     call_type         |-> Get(m, "callType", None),
     caller_name       |-> Get(m, "callerName", None),
     forwarded_from    |-> Get(m, "forwardedFrom", None),
     parent_call_sid   |-> Get(m, "parentCallSid", None),
     custom_parameters |-> Get(m, "customParameters", Map(<<>>))]

InterruptEventData(m) ==
    [utterance_until_interrupt   |-> Get(m, "utteranceUntilInterrupt", None),
     duration_until_interrupt_ms |-> Get(m, "durationUntilInterruptMs", None)]

DTMFEventData(m) == [digit |-> Get(m, "digit", Str(""))]

ErrorEventData(description) == [description |-> description]

CallbackNames == {"on_setup", "on_interrupt", "on_dtmf", "on_error"}

---------------------------------------------------------------------------
(* The input relay's log *)

Recv(p)          == [ev |-> "recv", payload |-> p]
Callback(n, arg) == [ev |-> "callback", name |-> n, arg |-> arg]
CallbackEnd(how) == [ev |-> "callback_end", how |-> how]
PushFrame(f)     == [ev |-> "push_frame", frame |-> f]
LoopEnd(why)     == [ev |-> "loop_end", why |-> why]
Call(op)         == [ev |-> "call", op |-> op]
CreateTask       == [ev |-> "create_task"]
CancelTask       == [ev |-> "cancel_task"]
Close            == [ev |-> "close"]
Return           == [ev |-> "return"]
Raise(exc)       == [ev |-> "raise", exc |-> exc]

---------------------------------------------------------------------------
(* _receive_messages: where the loop goes after a step.  L is the log so   *)
(* far, this step's events included.                                       *)

\* back to `async for text in self._websocket.iter_text()`
LoopContinues(L) == inlog' = L /\ task_pc' = "iter"

\* suspended in `await self._callbacks.on_...(event)`
LoopAwaits(L) == inlog' = L /\ task_pc' = "callback"

\* LoopExits with the push_frame as the last statement of the try block, so
\* that an exception skips it
LoopExits_push_in_try(L, why) ==
    /\ inlog' = IF why = "closed" THEN L \o <<LoopEnd(why), PushFrame(CancelFrame)>>
                                  ELSE Append(L, LoopEnd(why))
    /\ task_pc' = "done"

\* LoopExits without the `except Exception`: the exception leaves the task
LoopExits_uncaught(L, why) ==
    IF why = "closed"
    THEN /\ inlog' = L \o <<LoopEnd(why), PushFrame(CancelFrame)>>
         /\ task_pc' = "done"
    ELSE /\ inlog' = L \o <<LoopEnd(why), Raise("Exception")>>
         /\ task_pc' = "raised"

\* LoopExits reporting the exception downstream after the CancelFrame
LoopExits_error_after_cancel(L, why) ==
    /\ inlog' = L \o <<LoopEnd(why), PushFrame(CancelFrame)>>
                  \o (IF why = "closed" THEN <<>>
                      ELSE <<PushFrame(ErrorFrame(Str("disconnected")))>>)
    /\ task_pc' = "done"

\* the `async for` is left: the stream is closed, the receive raised or a
\* handler raised, the last two caught by `except Exception`; line 112 then
\* pushes the CancelFrame and the coroutine returns
LoopExits(L, why) ==
    /\ inlog' = L \o <<LoopEnd(why), PushFrame(CancelFrame)>>
    /\ task_pc' = "done"

KeepIdentity == UNCHANGED <<session_id, call_sid>>

---------------------------------------------------------------------------
(* The message handlers *)

\* handle_setup calling on_setup without testing that it is registered
handle_setup_unguarded(m, L) ==
    /\ session_id' = Get(m, "sessionId", None)
    /\ call_sid' = Get(m, "callSid", None)
    /\ IF "on_setup" \in callbacks
       THEN LoopAwaits(Append(L, Callback("on_setup", SetupEventData(m))))
       ELSE LoopExits(L, "handler_raised")

handle_setup(m, L) ==
    /\ session_id' = Get(m, "sessionId", None)
    /\ call_sid' = Get(m, "callSid", None)
    /\ IF "on_setup" \in callbacks
       THEN LoopAwaits(Append(L, Callback("on_setup", SetupEventData(m))))
       ELSE LoopContinues(L)

\* handle_prompt testing `if not voice_prompt:` without the strip()
handle_prompt_unstripped(m, L) ==
    LET last         == Get(m, "last", Bool(FALSE))
        voice_prompt == Get(m, "voicePrompt", Str(<<>>))
        lang         == Get(m, "lang", None)
    IN  /\ KeepIdentity
        /\ IF ~Truthy(last) THEN LoopContinues(L)
           ELSE IF voice_prompt = None \/ voice_prompt.str = <<>> THEN LoopContinues(L)
           ELSE LoopContinues(Append(L, PushFrame(
                    TranscriptionFrame(voice_prompt, Str(""), "time.time()", lang))))

\* handle_prompt emitting the trimmed text
handle_prompt_trimmed(m, L) ==
    LET last         == Get(m, "last", Bool(FALSE))
        voice_prompt == Get(m, "voicePrompt", Str(<<>>))
        lang         == Get(m, "lang", None)
    IN  /\ KeepIdentity
        /\ IF ~Truthy(last) THEN LoopContinues(L)
           ELSE IF voice_prompt = None THEN LoopExits(L, "handler_raised")
           ELSE IF strip(voice_prompt.str) = <<>> THEN LoopContinues(L)
           ELSE LoopContinues(Append(L, PushFrame(
                    TranscriptionFrame(Str(strip(voice_prompt.str)), Str(""),
                                       "time.time()", lang))))

handle_prompt(m, L) ==
    LET last         == Get(m, "last", Bool(FALSE))
        voice_prompt == Get(m, "voicePrompt", Str(<<>>))
        lang         == Get(m, "lang", None)
    IN  /\ KeepIdentity
        /\ IF ~Truthy(last) THEN LoopContinues(L)
           ELSE IF voice_prompt = None
                \* None.strip(): AttributeError, caught at line 108
                THEN LoopExits(L, "handler_raised")
           ELSE IF strip(voice_prompt.str) = <<>> THEN LoopContinues(L)
           ELSE LoopContinues(Append(L, PushFrame(
                    TranscriptionFrame(voice_prompt, Str(""), "time.time()", lang))))

\* handle_interrupt clearing the session identity
handle_interrupt_forgetting(m, L) ==
    /\ session_id' = None
    /\ call_sid' = None
    /\ IF "on_interrupt" \in callbacks
       THEN LoopAwaits(Append(L, Callback("on_interrupt", InterruptEventData(m))))
       ELSE LoopContinues(L)

handle_interrupt(m, L) ==
    /\ KeepIdentity
    /\ IF "on_interrupt" \in callbacks
       THEN LoopAwaits(Append(L, Callback("on_interrupt", InterruptEventData(m))))
       ELSE LoopContinues(L)

\* handle_dtmf pushing a frame for the keypress as well
handle_dtmf_pushing(m, L) ==
    /\ KeepIdentity
    /\ LET pushed == Append(L, PushFrame([frame |-> "InputDTMFFrame"]))
       IN  IF "on_dtmf" \in callbacks
           THEN LoopAwaits(Append(pushed, Callback("on_dtmf", DTMFEventData(m))))
           ELSE LoopContinues(pushed)

\* handle_dtmf starting on_dtmf without awaiting it
handle_dtmf_not_awaited(m, L) ==
    /\ KeepIdentity
    /\ IF "on_dtmf" \in callbacks
       THEN LoopContinues(Append(L, Callback("on_dtmf", DTMFEventData(m))))
       ELSE LoopContinues(L)

handle_dtmf(m, L) ==
    /\ KeepIdentity
    /\ IF "on_dtmf" \in callbacks
       THEN LoopAwaits(Append(L, Callback("on_dtmf", DTMFEventData(m))))
       ELSE LoopContinues(L)

ErrorDescription(m) == Get(m, "description", Str("Unknown error"))

\* handle_error pushing the ErrorFrame before on_error is called
handle_error_frame_first(m, L) ==
    /\ KeepIdentity
    /\ LET pushed == Append(L, PushFrame(ErrorFrame(ErrorDescription(m))))
       IN  IF "on_error" \in callbacks
           THEN LoopAwaits(Append(pushed,
                    Callback("on_error", ErrorEventData(ErrorDescription(m)))))
           ELSE LoopContinues(pushed)

\* _handle_error up to its first suspension
handle_error(m, L) ==
    /\ KeepIdentity
    /\ IF "on_error" \in callbacks
       THEN LoopAwaits(Append(L,
                Callback("on_error", ErrorEventData(ErrorDescription(m)))))
       ELSE LoopContinues(Append(L, PushFrame(ErrorFrame(ErrorDescription(m)))))

\* _handle_error after `await self._callbacks.on_error(event)` has returned
handle_error_resume(m, L) ==
    LoopContinues(Append(L, PushFrame(ErrorFrame(ErrorDescription(m)))))

\* dispatch raising on a type it does not know
dispatch_strict(m, L) ==
    LET msg_type == Get(m, "type", None)
    IN  IF msg_type = Str("setup") THEN handle_setup(m, L)
        ELSE IF msg_type = Str("prompt") THEN handle_prompt(m, L)
        ELSE IF msg_type = Str("interrupt") THEN handle_interrupt(m, L)
        ELSE IF msg_type = Str("dtmf") THEN handle_dtmf(m, L)
        ELSE IF msg_type = Str("error") THEN handle_error(m, L)
        ELSE KeepIdentity /\ LoopExits(L, "handler_raised")

\* The if/elif chain on message.get("type")
dispatch(m, L) ==
    LET msg_type == Get(m, "type", None)
    IN  IF msg_type = Str("setup") THEN handle_setup(m, L)
        ELSE IF msg_type = Str("prompt") THEN handle_prompt(m, L)
        ELSE IF msg_type = Str("interrupt") THEN handle_interrupt(m, L)
        ELSE IF msg_type = Str("dtmf") THEN handle_dtmf(m, L)
        ELSE IF msg_type = Str("error") THEN handle_error(m, L)
        ELSE KeepIdentity /\ LoopContinues(L)

\* loop_body without the try around json.loads
loop_body_no_inner_try(p, L) ==
    IF "unparseable" \in DOMAIN p \/ p.parsed # "dict"
    THEN KeepIdentity /\ LoopExits(L, "handler_raised")
    ELSE dispatch(p.dict, L)

\* One iteration of the loop body on the payload p
loop_body(p, L) ==
    IF "unparseable" \in DOMAIN p
    THEN KeepIdentity /\ LoopContinues(L)          \* JSONDecodeError: continue
    ELSE IF p.parsed # "dict"
    THEN KeepIdentity /\ LoopExits(L, "handler_raised") \* no .get: AttributeError
    ELSE dispatch(p.dict, L)

---------------------------------------------------------------------------
(* The input relay's actions *)

IsRecv(e) == e.ev = "recv"
NumReceived == Len(SelectSeq(inlog, IsRecv))

IsClose(e) == e.ev = "close"
NumCloses == Len(SelectSeq(inlog, IsClose))

\* iter_text() yields the payload p and the loop body runs up to its next
\* suspension
receive_messages(p) ==
    /\ task_pc = "iter"
    /\ NumReceived < MaxMsgs
    /\ NumCloses = 0      \* a closed connection delivers nothing more
    /\ message' = p
    /\ loop_body(p, Append(inlog, Recv(p)))
    /\ UNCHANGED <<client_state, callbacks, initialized, receive_task>>
    /\ UNCHANGED out_vars
    /\ UNCHANGED facade_vars

\* the awaited user callback returns
callback_returns ==
    /\ task_pc = "callback"
    /\ IF Get(message.dict, "type", None) = Str("error")
       THEN handle_error_resume(message.dict, Append(inlog, CallbackEnd("returned")))
       ELSE LoopContinues(Append(inlog, CallbackEnd("returned")))
    /\ UNCHANGED <<client_state, callbacks, session_id, call_sid, initialized,
                   receive_task, message>>
    /\ UNCHANGED out_vars
    /\ UNCHANGED facade_vars

\* the awaited user callback raises an Exception, caught at line 108
callback_raises ==
    /\ task_pc = "callback"
    /\ LoopExits(Append(inlog, CallbackEnd("raised")), "handler_raised")
    /\ UNCHANGED <<client_state, callbacks, session_id, call_sid, initialized,
                   receive_task, message>>
    /\ UNCHANGED out_vars
    /\ UNCHANGED facade_vars

\* iter_text_ends with the return inside the loop on a clean close: the
\* CancelFrame is pushed only when an exception was caught
iter_text_ends_silently ==
    /\ task_pc = "iter"
    /\ \/ /\ inlog' = Append(inlog, LoopEnd("closed"))
          /\ task_pc' = "done"
          /\ client_state' = DISCONNECTED
       \/ LoopExits(inlog, "receive_raised") /\ UNCHANGED client_state
    /\ UNCHANGED <<callbacks, session_id, call_sid, initialized, receive_task,
                   message>>
    /\ UNCHANGED out_vars
    /\ UNCHANGED facade_vars

\* iter_text() ends.  Either the peer disconnected: the websocket sets
\* client_state to DISCONNECTED and the iterator finishes; or the receive
\* raised an Exception, which line 108 catches.
iter_text_ends ==
    /\ task_pc = "iter"
    /\ \/ LoopExits(inlog, "closed") /\ client_state' = DISCONNECTED
       \/ LoopExits(inlog, "receive_raised") /\ UNCHANGED client_state
    /\ UNCHANGED <<callbacks, session_id, call_sid, initialized, receive_task,
                   message>>
    /\ UNCHANGED out_vars
    /\ UNCHANGED facade_vars

\* start_logging without the _initialized latch
start_logging_unlatched(L) ==
    /\ initialized' = TRUE
    /\ IF receive_task = None
       THEN /\ receive_task' = Task
            /\ task_pc' = "iter"
            /\ inlog' = Append(L, CreateTask)
       ELSE inlog' = L /\ UNCHANGED <<receive_task, task_pc>>
    /\ UNCHANGED <<client_state, callbacks, session_id, call_sid, message>>
    /\ UNCHANGED out_vars
    /\ UNCHANGED facade_vars

\* start(frame), its call logged or not: L is the log when the body begins
start_logging(L) ==
    /\ IF initialized
       THEN inlog' = L /\ UNCHANGED <<initialized, receive_task, task_pc>>
       ELSE /\ initialized' = TRUE
            /\ IF receive_task = None
               THEN /\ receive_task' = Task
                    /\ task_pc' = "iter"
                    /\ inlog' = Append(L, CreateTask)
               ELSE inlog' = L /\ UNCHANGED <<receive_task, task_pc>>
    /\ UNCHANGED <<client_state, callbacks, session_id, call_sid, message>>
    /\ UNCHANGED out_vars
    /\ UNCHANGED facade_vars

start == start_logging(inlog)

\* stop_tasks that drops the task reference without cancelling the task
stop_tasks_uncancelled ==
    /\ receive_task' = None
    /\ UNCHANGED task_pc

\* stop_tasks letting a task that is inside a callback run on: only a task
\* waiting for a payload is cancelled
stop_tasks_shielded ==
    IF receive_task # None
    THEN /\ receive_task' = None
         /\ task_pc' = IF task_pc = "iter" THEN "cancelled" ELSE task_pc
    ELSE UNCHANGED <<receive_task, task_pc>>

\* _stop_tasks.  cancel_task: the task gets CancelledError where it is
\* suspended; that is no Exception, so line 108 does not catch it and line
\* 112 is not reached.  A task that has already returned is left as it is.
stop_tasks ==
    IF receive_task # None
    THEN /\ receive_task' = None
         /\ task_pc' = IF task_pc \in {"iter", "callback"} THEN "cancelled"
                       ELSE task_pc
    ELSE UNCHANGED <<receive_task, task_pc>>

\* stop_tasks_log with the CancelFrame pushed from a `finally`
stop_tasks_log_finally(L) ==
    IF receive_task = None THEN L
    ELSE IF task_pc = "callback"
    THEN L \o <<CancelTask, CallbackEnd("cancelled"), PushFrame(CancelFrame)>>
    ELSE IF task_pc = "iter" THEN L \o <<CancelTask, PushFrame(CancelFrame)>>
    ELSE Append(L, CancelTask)

\* what _stop_tasks adds to the log L
stop_tasks_log(L) ==
    IF receive_task = None THEN L
    ELSE IF task_pc = "callback"
    THEN L \o <<CancelTask, CallbackEnd("cancelled")>>
    ELSE Append(L, CancelTask)

\* _close_websocket: close() is called on a connection seen CONNECTED;
\* whether it returns or raises, _close_websocket returns (an exception is
\* only logged).  client_state is the peer's side of the connection, which
\* close() does not change.
close_websocket(L) ==
    /\ inlog' = IF client_state = CONNECTED THEN Append(L, Close) ELSE L
    /\ UNCHANGED client_state

\* stop(frame) and cancel(frame) have the same body
stop_or_cancel ==
    /\ NumCloses < MaxCloses
    /\ stop_tasks
    /\ close_websocket(stop_tasks_log(inlog))
    /\ UNCHANGED <<callbacks, session_id, call_sid, initialized, message>>
    /\ UNCHANGED out_vars
    /\ UNCHANGED facade_vars

stop   == stop_or_cancel
cancel == stop_or_cancel

---------------------------------------------------------------------------
(* Outbound frames, operations and messages *)

TextFrame(text) == [frame |-> "TextFrame", text |-> text]
LLMFullResponseEndFrame == [frame |-> "LLMFullResponseEndFrame"]
BotSpeakingFrame == [frame |-> "BotSpeakingFrame"]

Tokens == {Str("a"), Str("b")}
Frames == {TextFrame(t) : t \in Tokens} \cup {LLMFullResponseEndFrame, BotSpeakingFrame}

ProcessFrame(f)    == [op |-> "process_frame", frame |-> f]
EndSession(h)      == [op |-> "send_end_session", handoff_data |-> h]
Play(s, l, i, p)   == [op |-> "send_play", source |-> s, loop |-> l,
                       interruptible |-> i, preemptible |-> p]
Digits(d)          == [op |-> "send_digits", digits |-> d]
Language(tts, stt) == [op |-> "send_language", tts_language |-> tts,
                       transcription_language |-> stt]

\* text_token_message with interruptible always true
text_token_message_interruptible(token) ==
    [type |-> Str("text"), token |-> token, last |-> Bool(FALSE),
     interruptible |-> Bool(TRUE)]

text_token_message(token) ==
    [type |-> Str("text"), token |-> token, last |-> Bool(FALSE),
     interruptible |-> Bool(interruptible)]

\* last_token_message without the last flag
last_token_message_not_last ==
    [type |-> Str("text"), token |-> Str(""), last |-> Bool(FALSE),
     interruptible |-> Bool(FALSE)]

last_token_message ==
    [type |-> Str("text"), token |-> Str(""), last |-> Bool(TRUE),
     interruptible |-> Bool(FALSE)]

\* end_session_message with handoffData always present, null when no data
\* was given
end_session_message_with_null(handoff_data) ==
    [type |-> Str("end"), handoffData |-> handoff_data]

end_session_message(handoff_data) ==
    IF handoff_data # None
    THEN [type |-> Str("end"), handoffData |-> handoff_data]
    ELSE [type |-> Str("end")]

\* play_message with `interruptible or self._interruptible`: an explicit
\* False gives way to the session default
play_message_falsy(source, loop, interruptible_arg, preemptible) ==
    [type |-> Str("play"), source |-> source, loop |-> loop,
     preemptible |-> preemptible,
     interruptible |-> IF interruptible_arg \notin {None, Bool(FALSE)}
                       THEN interruptible_arg
                       ELSE Bool(interruptible)]

play_message(source, loop, interruptible_arg, preemptible) ==
    [type |-> Str("play"), source |-> source, loop |-> loop,
     preemptible |-> preemptible,
     interruptible |-> IF interruptible_arg # None THEN interruptible_arg
                       ELSE Bool(interruptible)]

digits_message(digits) == [type |-> Str("sendDigits"), digits |-> digits]

\* language_message with an omitted language sent as null
language_message_with_nulls(tts_language, transcription_language) ==
    [type |-> Str("language"), ttsLanguage |-> tts_language,
     transcriptionLanguage |-> transcription_language]

language_message(tts_language, transcription_language) ==
    ("type" :> Str("language"))
        @@ (IF tts_language # None THEN "ttsLanguage" :> tts_language ELSE <<>>)
        @@ (IF transcription_language # None
            THEN "transcriptionLanguage" :> transcription_language ELSE <<>>)

---------------------------------------------------------------------------
(* The output relay's log *)

SendJson(msg)   == [ev |-> "send_json", message |-> msg]
SendEnd(how)    == [ev |-> "send_end", how |-> how]
SendSkipped(msg) == [ev |-> "not_connected", message |-> msg]
SuperProcessFrame(f) == [ev |-> "super_process_frame", frame |-> f]

IsCall(e) == e.ev = "call"
NumOps == Len(SelectSeq(outlog, IsCall))

---------------------------------------------------------------------------
(* The output relay's actions *)

\* after_send forwarding the frame only when the message went out
after_send_only_if_sent(op, L) ==
    /\ outlog' = IF op.op = "process_frame" /\ L[Len(L)] = [ev |-> "send_end", how |-> "returned"]
                 THEN L \o <<PushFrame(op.frame), Return>>
                 ELSE Append(L, Return)
    /\ out_pc' = "idle"
    /\ out_op' = None

\* What follows `await self._send_json(message)` in the operation op: a
\* frame is pushed on, and the operation returns
after_send(op, L) ==
    /\ outlog' = IF op.op = "process_frame"
                 THEN L \o <<PushFrame(op.frame), Return>>
                 ELSE Append(L, Return)
    /\ out_pc' = "idle"
    /\ out_op' = None

\* send_json without the client_state test
send_json_unchecked(op, msg, L) ==
    /\ outlog' = Append(L, SendJson(msg))
    /\ out_pc' = "sending"
    /\ out_op' = op

\* send_json that starts the send and goes on without awaiting it
send_json_not_awaited(op, msg, L) ==
    IF client_state = CONNECTED
    THEN after_send(op, Append(L, SendJson(msg)))
    ELSE after_send(op, Append(L, SendSkipped(msg)))

\* send_json testing whether this side has closed the connection, not whether
\* the peer has disconnected
send_json_checking_own_close(op, msg, L) ==
    IF NumCloses = 0
    THEN /\ outlog' = Append(L, SendJson(msg))
         /\ out_pc' = "sending"
         /\ out_op' = op
    ELSE after_send(op, Append(L, SendSkipped(msg)))

\* _send_json up to its suspension in websocket.send_json
send_json(op, msg, L) ==
    IF client_state = CONNECTED
    THEN /\ outlog' = Append(L, SendJson(msg))
         /\ out_pc' = "sending"
         /\ out_op' = op
    ELSE after_send(op, Append(L, SendSkipped(msg)))

\* send_json_ends without the try/except: the exception reaches the caller
send_json_ends_uncaught(how) ==
    /\ out_pc = "sending"
    /\ IF how = "raised"
       THEN /\ outlog' = outlog \o <<SendEnd(how), Raise("Exception")>>
            /\ out_pc' = "idle"
            /\ out_op' = None
       ELSE after_send(out_op, Append(outlog, SendEnd(how)))
    /\ UNCHANGED <<client_state, interruptible>>
    /\ UNCHANGED in_vars
    /\ UNCHANGED facade_vars

\* websocket.send_json returns, or raises and _send_json logs the exception
send_json_ends(how) ==
    /\ out_pc = "sending"
    /\ after_send(out_op, Append(outlog, SendEnd(how)))
    /\ UNCHANGED <<client_state, interruptible>>
    /\ UNCHANGED in_vars
    /\ UNCHANGED facade_vars

CanCall == out_pc = "idle" /\ NumOps < MaxOps

\* process_frame pushing every other frame on itself, past the base class
process_frame_bypassing(frame) ==
    /\ CanCall
    /\ LET op == ProcessFrame(frame)
           L  == Append(outlog, Call(op))
       IN  IF frame.frame = "LLMFullResponseEndFrame"
           THEN send_json(op, last_token_message, L)
           ELSE IF frame.frame = "TextFrame"
           THEN send_json(op, text_token_message(frame.text), L)
           ELSE /\ outlog' = L \o <<PushFrame(frame), Return>>
                /\ UNCHANGED <<out_pc, out_op>>
    /\ UNCHANGED <<client_state, interruptible>>
    /\ UNCHANGED in_vars
    /\ UNCHANGED facade_vars

process_frame(frame) ==
    /\ CanCall
    /\ LET op == ProcessFrame(frame)
           L  == Append(outlog, Call(op))
       IN  IF frame.frame = "LLMFullResponseEndFrame"
           THEN send_json(op, last_token_message, L)
           ELSE IF frame.frame = "TextFrame"
           THEN send_json(op, text_token_message(frame.text), L)
           ELSE /\ outlog' = L \o <<SuperProcessFrame(frame), Return>>
                /\ UNCHANGED <<out_pc, out_op>>
    /\ UNCHANGED <<client_state, interruptible>>
    /\ UNCHANGED in_vars
    /\ UNCHANGED facade_vars

\* the value of a parameter: the argument, or the default when it is omitted
Default(arg, dflt) == IF arg = Absent THEN dflt ELSE arg

\* send_end_session(handoff_data=None), the argument given or Absent
send_end_session(handoff_data) ==
    /\ CanCall
    /\ LET op == EndSession(handoff_data)
       IN  send_json(op, end_session_message(Default(handoff_data, None)),
                     Append(outlog, Call(op)))
    /\ UNCHANGED <<client_state, interruptible>>
    /\ UNCHANGED in_vars
    /\ UNCHANGED facade_vars

\* send_play(source, loop=1, interruptible=None, preemptible=False), each of
\* the last three given or Absent
send_play(source, loop, interruptible_arg, preemptible) ==
    /\ CanCall
    /\ LET op == Play(source, loop, interruptible_arg, preemptible)
       IN  send_json(op,
                     play_message(source, Default(loop, Int(1)),
                                  Default(interruptible_arg, None),
                                  Default(preemptible, Bool(FALSE))),
                     Append(outlog, Call(op)))
    /\ UNCHANGED <<client_state, interruptible>>
    /\ UNCHANGED in_vars
    /\ UNCHANGED facade_vars

\* send_digits reporting the digits to on_dtmf as well, as a keypress
send_digits_as_keypress(digits) ==
    /\ CanCall
    /\ LET op == Digits(digits)
       IN  send_json(op, digits_message(digits), Append(outlog, Call(op)))
    /\ inlog' = IF "on_dtmf" \in callbacks
                THEN inlog \o <<Callback("on_dtmf", [digit |-> digits]),
                                CallbackEnd("returned")>>
                ELSE inlog
    /\ UNCHANGED <<client_state, interruptible>>
    /\ UNCHANGED <<callbacks, session_id, call_sid, initialized, receive_task,
                   task_pc, message>>
    /\ UNCHANGED facade_vars

send_digits(digits) ==
    /\ CanCall
    /\ LET op == Digits(digits)
       IN  send_json(op, digits_message(digits), Append(outlog, Call(op)))
    /\ UNCHANGED <<client_state, interruptible>>
    /\ UNCHANGED in_vars
    /\ UNCHANGED facade_vars

send_language(tts_language, transcription_language) ==
    /\ CanCall
    /\ LET op == Language(tts_language, transcription_language)
           L  == Append(outlog, Call(op))
       IN  IF tts_language = None /\ transcription_language = None
           THEN /\ outlog' = Append(L, Raise("ValueError"))
                /\ UNCHANGED <<out_pc, out_op>>
           ELSE send_json(op, language_message(tts_language, transcription_language), L)
    /\ UNCHANGED <<client_state, interruptible>>
    /\ UNCHANGED in_vars
    /\ UNCHANGED facade_vars

---------------------------------------------------------------------------
(* start, stop and cancel with their calls and returns in the log *)

CloseEnd(how) == [ev |-> "close_end", how |-> how]

IsLifecycleCall(e) == e.ev = "call" /\ e.op \in {"start", "stop", "cancel"}
NumCalls == Len(SelectSeq(inlog, IsLifecycleCall))

start_logged ==
    /\ NumCalls < MaxCalls
    /\ start_logging(Append(inlog, Call("start")))

\* close_websocket_log without the try/except around close()
close_websocket_log_uncaught(L, how) ==
    IF client_state = CONNECTED
    THEN L \o <<Close, CloseEnd(how),
                IF how = "raised" THEN Raise("Exception") ELSE Return>>
    ELSE Append(L, Return)

\* _close_websocket as the last statement of stop() and cancel(): close() is
\* awaited on a connection seen CONNECTED, an exception it raises is logged,
\* and the operation returns
close_websocket_log(L, how) ==
    IF client_state = CONNECTED
    THEN L \o <<Close, CloseEnd(how), Return>>
    ELSE Append(L, Return)

\* stop_or_cancel_logged resetting the start latch
stop_or_cancel_logged_resetting(op, how) ==
    /\ NumCalls < MaxCalls
    /\ stop_tasks
    /\ initialized' = FALSE
    /\ inlog' = close_websocket_log(stop_tasks_log(Append(inlog, Call(op))), how)
    /\ UNCHANGED <<client_state, callbacks, session_id, call_sid, message>>
    /\ UNCHANGED out_vars
    /\ UNCHANGED facade_vars

stop_or_cancel_logged(op, how) ==
    /\ NumCalls < MaxCalls
    /\ stop_tasks
    /\ inlog' = close_websocket_log(stop_tasks_log(Append(inlog, Call(op))), how)
    /\ UNCHANGED <<client_state, callbacks, session_id, call_sid, initialized,
                   message>>
    /\ UNCHANGED out_vars
    /\ UNCHANGED facade_vars

stop_logged(how)   == stop_or_cancel_logged("stop", how)
cancel_logged(how) == stop_or_cancel_logged("cancel", how)

---------------------------------------------------------------------------
(* The facade: ConversationRelayTransport *)

WebSockets == {"ws1", "ws2"}

MediaFlags == {"audio_in_enabled", "audio_out_enabled",
               "video_in_enabled", "video_out_enabled"}

TransportParams(audio_in, audio_out, video_in, video_out) ==
    [audio_in_enabled |-> audio_in, audio_out_enabled |-> audio_out,
     video_in_enabled |-> video_in, video_out_enabled |-> video_out]

\* the arguments `params` and `callbacks` of the facade: None, or an object of
\* the caller's
ParamsArgs == {None} \cup [MediaFlags -> BOOLEAN]
CallbacksArgs ==
    {None} \cup { [obj |-> "callbacks_arg", registered |-> c] :
                    c \in SUBSET CallbackNames }

\* disable_media switching off the audio flags only
disable_media_audio_only(p) ==
    [p EXCEPT !.audio_in_enabled = FALSE, !.audio_out_enabled = FALSE]

\* the four assignments to self._params
disable_media(p) ==
    [p EXCEPT !.audio_in_enabled = FALSE, !.audio_out_enabled = FALSE,
              !.video_in_enabled = FALSE, !.video_out_enabled = FALSE]

\* the relays as the facade constructs them; params is a reference to the
\* one TransportParams object
ConversationRelayInputTransport(websocket, params, callbacks_arg) ==
    [obj |-> "input_1", _websocket |-> websocket, _params |-> params,
     _callbacks |-> IF callbacks_arg # None THEN callbacks_arg
                    ELSE [obj |-> "callbacks_default", registered |-> {}]]

ConversationRelayOutputTransport(websocket, params, interruptible_arg) ==
    [obj |-> "output_1", _websocket |-> websocket, _params |-> params,
     _interruptible |-> interruptible_arg]

\* __init__: the object the facade is, with the TransportParams object its
\* _params refers to (the caller's, modified in place, or a new one)
ConversationRelayTransport(websocket, params, callbacks_arg, interruptible_arg) ==
    LET ref     == IF params # None THEN "params_arg" ELSE "params_new"
        created == IF params # None THEN params
                   ELSE TransportParams(FALSE, FALSE, FALSE, FALSE)
    IN  [heap    |-> (ref :> disable_media(created)),
         _params |-> ref,
         _input  |-> ConversationRelayInputTransport(websocket, ref, callbacks_arg),
         _output |-> ConversationRelayOutputTransport(websocket, ref,
                                                     interruptible_arg)]

Construct(websocket, params, callbacks_arg, interruptible_arg) ==
    [ev |-> "construct", websocket |-> websocket, params |-> params,
     callbacks |-> callbacks_arg, interruptible |-> interruptible_arg]
Got(accessor, relay) == [ev |-> "got", accessor |-> accessor, relay |-> relay]

IsGot(e) == e.ev = "got"
NumGets == Len(SelectSeq(facade_log, IsGot))

\* input() constructing a new relay at each call
input_rebuilding ==
    /\ NumGets < MaxGets
    /\ facade_log' = Append(facade_log,
            Got("input", [transport._input EXCEPT !.obj = "input_2"]))
    /\ UNCHANGED <<client_state, transport>>
    /\ UNCHANGED in_vars
    /\ UNCHANGED out_vars

input ==
    /\ NumGets < MaxGets
    /\ facade_log' = Append(facade_log, Got("input", transport._input))
    /\ UNCHANGED <<client_state, transport>>
    /\ UNCHANGED in_vars
    /\ UNCHANGED out_vars

output ==
    /\ NumGets < MaxGets
    /\ facade_log' = Append(facade_log, Got("output", transport._output))
    /\ UNCHANGED <<client_state, transport>>
    /\ UNCHANGED in_vars
    /\ UNCHANGED out_vars

---------------------------------------------------------------------------
(* Specifications *)

Init ==
    /\ client_state = CONNECTED
    /\ callbacks \in SUBSET CallbackNames
    /\ session_id = None
    /\ call_sid = None
    /\ initialized = FALSE
    /\ receive_task = None
    /\ task_pc = "none"
    /\ message = None
    /\ inlog = <<>>
    /\ interruptible \in BOOLEAN
    /\ out_pc = "idle"
    /\ out_op = None
    /\ outlog = <<>>
    /\ transport = None
    /\ facade_log = <<>>

\* the session with the default interruptible=True
InitIn == Init /\ interruptible = TRUE

\* the session with no callbacks registered
InitOut == Init /\ callbacks = {}

\* the session with neither callbacks nor a changed default
InitPrompt == Init /\ callbacks = {} /\ interruptible = TRUE

\* the session with every callback registered or none
InitBoth == Init /\ callbacks \in {{}, CallbackNames} /\ interruptible = TRUE

\* the session with on_dtmf registered or no callback at all
InitLifecycle == Init /\ callbacks \in SUBSET {"on_dtmf"} /\ interruptible = TRUE

\* the session constructed through the facade, from any arguments
InitFacade ==
    \E ws \in WebSockets, p \in ParamsArgs, c \in CallbacksArgs, i \in BOOLEAN :
        /\ transport = ConversationRelayTransport(ws, p, c, i)
        /\ facade_log = <<Construct(ws, p, c, i)>>
        /\ client_state = CONNECTED
        /\ callbacks = transport._input._callbacks.registered
        /\ session_id = None
        /\ call_sid = None
        /\ initialized = FALSE
        /\ receive_task = None
        /\ task_pc = "none"
        /\ message = None
        /\ inlog = <<>>
        /\ interruptible = transport._output._interruptible
        /\ out_pc = "idle"
        /\ out_op = None
        /\ outlog = <<>>

Lifecycle == start \/ stop \/ cancel \/ iter_text_ends

Inbound ==
    \/ \E p \in Payloads : receive_messages(p)
    \/ callback_returns
    \/ callback_raises

\* the pipeline's frames
PipelineFrames ==
    \/ \E f \in Frames : process_frame(f)
    \/ \E how \in {"returned", "raised"} : send_json_ends(how)

\* one operation of each kind
Outbound ==
    \/ \E f \in {TextFrame(Str("a")), LLMFullResponseEndFrame} : process_frame(f)
    \/ \E h \in {None, Str("h")} : send_end_session(h)
    \/ \E i \in {None, Bool(FALSE)} : send_play(Str("u"), Int(1), i, Bool(FALSE))
    \/ send_digits(Str("12"))
    \/ \E stt \in {None, Str("fr")} : send_language(Str("en"), stt)
    \/ send_language(None, None)
    \/ \E how \in {"returned", "raised"} : send_json_ends(how)

Prompts == \E p \in PromptPayloads : receive_messages(p)

\* a keypress, which suspends the loop in on_dtmf when it is registered
Keypresses ==
    \/ receive_messages(JsonDict([type |-> Str("dtmf"), digit |-> Str("1")]))
    \/ callback_returns
    \/ callback_raises

LifecycleLogged ==
    \/ start_logged
    \/ \E how \in {"returned", "raised"} : stop_logged(how)
    \/ \E how \in {"returned", "raised"} : cancel_logged(how)
    \/ iter_text_ends

\* one payload of each kind
EachKind ==
    \/ \E p \in {NotJson} \cup { JsonDict(d) :
            d \in { SetupMin,
                    PromptMsg(Str(<<"h">>), Bool(TRUE), Absent),
                    [type |-> Str("interrupt")],
                    [type |-> Str("dtmf"), digit |-> Str("1")],
                    [type |-> Str("error"), description |-> Str("boom")],
                    [type |-> Str("bogus")] } } : receive_messages(p)
    \/ callback_returns
    \/ callback_raises

\* a few outbound operations
SomeOutbound ==
    \/ process_frame(TextFrame(Str("a")))
    \/ send_digits(Str("12"))
    \/ send_json_ends("returned")

\* outbound operations that send, and the one that raises before sending
SendingOps ==
    \/ process_frame(TextFrame(Str("a")))
    \/ send_digits(Str("12"))
    \/ \E tts \in {None, Str("en")} : send_language(tts, None)
    \/ \E how \in {"returned", "raised"} : send_json_ends(how)

\* send_play with each optional argument given or omitted
Plays ==
    \/ \E l \in {Absent, Int(2)}, i \in {Absent, Bool(TRUE), Bool(FALSE)},
          p \in {Absent, Bool(TRUE)} : send_play(Str("u"), l, i, p)
    \/ send_json_ends("returned")

\* send_end_session with and without handoff data
EndSessions ==
    \/ \E h \in {Absent, None, Str(""), Str("h")} : send_end_session(h)
    \/ \E how \in {"returned", "raised"} : send_json_ends(how)

\* send_language with each argument given or omitted
Languages ==
    \/ \E tts \in {None, Str("en")}, stt \in {None, Str("fr")} : send_language(tts, stt)
    \/ \E how \in {"returned", "raised"} : send_json_ends(how)

NextIn     == Lifecycle \/ Inbound
NextPrompt == start \/ iter_text_ends \/ Prompts
NextOut    == start \/ iter_text_ends \/ Outbound
NextFrames == start \/ iter_text_ends \/ PipelineFrames
NextLifecycle == LifecycleLogged \/ Keypresses
NextFacade == input \/ output
NextPlay == start \/ iter_text_ends \/ Plays
NextEndSession == start \/ iter_text_ends \/ EndSessions
NextBoth == start \/ iter_text_ends \/ EachKind \/ SomeOutbound
NextLanguage == start \/ iter_text_ends \/ Languages
NextStop == LifecycleLogged \/ EachKind
NextClose == Lifecycle \/ Keypresses \/ SendingOps
NextLive == Lifecycle \/ EachKind
Next       == Lifecycle \/ Inbound \/ Outbound \/ PipelineFrames

\* the input relay, with no outbound operation invoked
SpecIn  == InitIn /\ [][NextIn]_vars
\* the output relay, with no inbound payload delivered
SpecOut == InitOut /\ [][NextOut]_vars
\* the output relay processing the pipeline's frames
SpecFrames == InitOut /\ [][NextFrames]_vars
\* the input relay receiving prompts only, of every shape
SpecPrompt == InitPrompt /\ [][NextPrompt]_vars
\* the input relay started, stopped and cancelled while keypresses arrive
SpecLifecycle == InitLifecycle /\ [][NextLifecycle]_vars
\* the facade constructed and its accessors called
SpecFacade == InitFacade /\ [][NextFacade]_vars
\* the output relay asked to play media
SpecPlay == InitOut /\ [][NextPlay]_vars
\* the output relay asked to end the session
SpecEndSession == InitOut /\ [][NextEndSession]_vars
\* both relays at work on the one connection
SpecBoth == InitBoth /\ [][NextBoth]_vars
\* the input relay started, stopped and cancelled while payloads of every kind
\* arrive
SpecStop == InitBoth /\ [][NextStop]_vars
\* outbound operations while the loop runs and the connection is closed from
\* either side
SpecClose == InitLifecycle /\ [][NextClose]_vars
\* every callback that is awaited ends: it returns or raises
CallbacksEnd == WF_vars(callback_returns \/ callback_raises)
\* the inbound stream ends: the peer disconnects or the receive fails
StreamEnds == WF_vars(iter_text_ends)
\* the input relay on a stream that ends, with callbacks that end
SpecLive == InitBoth /\ [][NextLive]_vars /\ CallbacksEnd /\ StreamEnds
\* the output relay asked to switch languages
SpecLanguage == InitOut /\ [][NextLanguage]_vars
Spec    == Init /\ [][Next]_vars

---------------------------------------------------------------------------
(* Reading the logs *)

IsPushOf(e, kind) == e.ev = "push_frame" /\ e.frame.frame = kind

Count(L, T(_)) == Len(SelectSeq(L, T))

\* the position of the first recv after position i, or past the end
NextRecv(i) ==
    LET later == { j \in DOMAIN inlog : j > i /\ inlog[j].ev = "recv" }
    IN  IF later = {} THEN Len(inlog) + 1
        ELSE CHOOSE j \in later : \A k \in later : j <= k

\* what the log holds between the payload received at i and the next one
Caused(i) == SubSeq(inlog, i + 1, NextRecv(i) - 1)

IsTranscriptionPush(e) == IsPushOf(e, "TranscriptionFrame")
IsErrorPush(e)         == IsPushOf(e, "ErrorFrame")
IsCancelPush(e)        == IsPushOf(e, "CancelFrame")

\* the payload received at position i is an object of the given type
RecvOfType(i, type) ==
    /\ inlog[i].ev = "recv"
    /\ "dict" \in DOMAIN inlog[i].payload
    /\ "type" \in DOMAIN inlog[i].payload.dict
    /\ inlog[i].payload.dict.type = Str(type)

---------------------------------------------------------------------------
(* C1 *)

IsBlank(t) == \A k \in DOMAIN t : t[k] \in Whitespace

\* the prompt is final and its voicePrompt is a string with a character that
\* is not whitespace
FinalNonBlank(d) ==
    /\ "last" \in DOMAIN d /\ d.last = Bool(TRUE)
    /\ "voicePrompt" \in DOMAIN d /\ d.voicePrompt # None
    /\ ~IsBlank(d.voicePrompt.str)

\* C1: every prompt the loop has handled caused one transcription event if
\* its `last` flag is true and its voicePrompt, trimmed, is non-empty, and
\* none otherwise (interim prompts, blank finals, a null voicePrompt).
C1_TranscriptionIffFinalNonBlank ==
    \A i \in DOMAIN inlog :
        RecvOfType(i, "prompt") =>
            Count(Caused(i), IsTranscriptionPush)
                = IF FinalNonBlank(inlog[i].payload.dict) THEN 1 ELSE 0

\* a padded final prompt has produced its event, and a blank final and a null
\* final have produced none
C1_Witness ==
    \E i, j \in DOMAIN inlog :
        /\ inlog[i] = Recv(JsonDict(PromptMsg(Str(<<" ", "h">>), Bool(TRUE), Absent)))
        /\ i < Len(inlog) /\ IsTranscriptionPush(inlog[i + 1])
        /\ inlog[j] \in { Recv(JsonDict(PromptMsg(Str(<<" ">>), Bool(TRUE), Absent))),
                         Recv(JsonDict(PromptMsg(None, Bool(TRUE), Absent))) }

---------------------------------------------------------------------------
(* C2, C3 *)

\* C2: once the loop has ended because the inbound stream finished or the
\* receive raised, whatever was received before, the loop has emitted exactly
\* one CancelFrame, right after leaving the `async for`.
C2_OneCancelFrameWhenStreamEnds ==
    \A i \in DOMAIN inlog :
        inlog[i] \in {LoopEnd("closed"), LoopEnd("receive_raised")} =>
            /\ Count(inlog, IsCancelPush) = 1
            /\ i < Len(inlog) /\ inlog[i + 1] = PushFrame(CancelFrame)

\* the receive raised after at least one payload, and the loop has returned
C2_Witness ==
    /\ task_pc = "done"
    /\ NumReceived >= 1
    /\ \E i \in DOMAIN inlog : inlog[i] = LoopEnd("receive_raised")

---------------------------------------------------------------------------
(* C5, C6, C7 *)

IsCallbackOf(e, n) == e.ev = "callback" /\ e.name = n
IsOnError(e) == IsCallbackOf(e, "on_error")

\* the loop is no longer handling the payload received at i, and was not
\* cancelled while handling it
Handled(i) == NextRecv(i) <= Len(inlog) \/ task_pc \in {"iter", "done"}

\* C5: every error message handled has caused exactly one ErrorFrame with the
\* message's description, whether or not on_error is registered and however
\* the callback ended; and exactly one on_error call with that description
\* when on_error is registered.
C5_ErrorFrameAlways ==
    \A i \in DOMAIN inlog :
        (RecvOfType(i, "error") /\ Handled(i)) =>
            LET d == inlog[i].payload.dict
                description == IF "description" \in DOMAIN d THEN d.description
                               ELSE Str("Unknown error")
                pushes == SelectSeq(Caused(i), IsErrorPush)
                calls  == SelectSeq(Caused(i), IsOnError)
            IN  /\ pushes = <<PushFrame(ErrorFrame(description))>>
                /\ calls = IF "on_error" \in callbacks
                           THEN <<Callback("on_error", ErrorEventData(description))>>
                           ELSE <<>>

\* C6: no message's handling ends the loop.
C6_HandlerExceptionContained ==
    \A i \in DOMAIN inlog : inlog[i] # LoopEnd("handler_raised")

\* C7: receiving a payload that is not JSON changes nothing but the log entry
\* of its reception: no callback, no frame, the loop still waiting for the
\* next payload, session identity and every other field as before.
C7_NonJsonIgnored ==
    [][ (NumReceived' = NumReceived + 1 /\ message' = NotJson) =>
            /\ inlog' = Append(inlog, Recv(NotJson))
            /\ task_pc = "iter" /\ task_pc' = "iter"
            /\ UNCHANGED <<client_state, callbacks, session_id, call_sid,
                           initialized, receive_task, out_vars>> ]_vars

\* a prompt received after a non-JSON payload has produced its event
C7_Witness ==
    \E i, j \in DOMAIN inlog :
        /\ i < j
        /\ inlog[i] = Recv(NotJson)
        /\ IsTranscriptionPush(inlog[j])

---------------------------------------------------------------------------
(* C4 *)

IsSendJson(e) == e.ev = "send_json"
IsSkipped(e)  == e.ev = "not_connected"
IsTextSend(e) == e.ev = "send_json" /\ e.message.type = Str("text")

\* process_frame was called with a text or a response-end frame
IsRelayedFrameCall(e) ==
    /\ e.ev = "call"
    /\ e.op.op = "process_frame"
    /\ e.op.frame.frame \in {"TextFrame", "LLMFullResponseEndFrame"}

\* C4: on a connected connection the text messages handed to the network are,
\* in order, one per text or response-end frame processed: a non-final message
\* with the frame's text for a text frame, a final message with an empty token
\* for a response-end frame.  So N text frames and a response-end frame give N
\* non-final messages and one final message, for N = 0 too.
C4_TextMessagesFollowFrames ==
    LET F == SelectSeq(outlog, IsRelayedFrameCall)
        S == SelectSeq(outlog, IsTextSend)
    IN  client_state = CONNECTED =>
            /\ Len(S) = Len(F)
            /\ \A k \in DOMAIN F :
                  IF F[k].op.frame.frame = "TextFrame"
                  THEN /\ S[k].message.token = F[k].op.frame.text
                       /\ S[k].message.last = Bool(FALSE)
                  ELSE /\ S[k].message.token = Str("")
                       /\ S[k].message.last = Bool(TRUE)

\* the frames a, b and response-end have been processed on a connected
\* connection
C4_Witness ==
    /\ client_state = CONNECTED
    /\ out_pc = "idle"
    /\ SelectSeq(outlog, IsRelayedFrameCall)
         = << Call(ProcessFrame(TextFrame(Str("a")))),
              Call(ProcessFrame(TextFrame(Str("b")))),
              Call(ProcessFrame(LLMFullResponseEndFrame)) >>
    /\ Count(outlog, IsTextSend) = 3

---------------------------------------------------------------------------
(* C8, C9, C10 *)

\* C8: an operation invoked while the connection is not connected (other than
\* send_language without arguments) makes no call of websocket.send_json and
\* has returned by the end of the step.
C8_NoSendWhenNotConnected ==
    [][ (client_state # CONNECTED /\ NumOps' = NumOps + 1) =>
            /\ Count(outlog', IsSendJson) = Count(outlog, IsSendJson)
            /\ out_pc' = "idle"
            /\ outlog'[Len(outlog) + 1].op # Language(None, None)
                  => outlog'[Len(outlog')] = Return ]_vars

\* a response-end frame and a send_play were both skipped
C8_Witness ==
    /\ client_state = DISCONNECTED
    /\ \E i, j \in DOMAIN outlog :
          /\ outlog[i] = SendSkipped(last_token_message)
          /\ outlog[j].ev = "not_connected"
          /\ outlog[j].message.type = Str("play")

\* C9: a send that raised is followed by the operation's normal return (after
\* the frame is pushed on, for a frame), never by an exception to the caller;
\* the only exception an operation raises is send_language's ValueError.
C9_SendFailureSwallowed ==
    /\ \A i \in DOMAIN outlog :
          outlog[i] = SendEnd("raised") =>
              /\ i < Len(outlog)
              /\ \/ outlog[i + 1] = Return
                 \/ /\ outlog[i + 1].ev = "push_frame"
                    /\ i + 1 < Len(outlog)
                    /\ outlog[i + 2] = Return
    /\ \A i \in DOMAIN outlog :
          outlog[i].ev = "raise" =>
              /\ outlog[i] = Raise("ValueError")
              /\ outlog[i - 1] = Call(Language(None, None))

\* the send of a send_play and the send of a text token have both raised
C9_Witness ==
    \E i, j \in DOMAIN outlog :
        /\ i + 1 \in DOMAIN outlog /\ j + 1 \in DOMAIN outlog
        /\ outlog[i].ev = "send_json" /\ outlog[i].message.type = Str("play")
        /\ outlog[i + 1] = SendEnd("raised")
        /\ outlog[j].ev = "send_json" /\ outlog[j].message.type = Str("text")
        /\ outlog[j + 1] = SendEnd("raised")

\* C10: a frame is pushed on only right after the send attempt made for it is
\* over (skipped, returned or raised); while the send is in progress the frame
\* has not been pushed.
C10_ForwardAfterSendAttempt ==
    /\ \A i \in DOMAIN outlog :
          outlog[i].ev = "push_frame" =>
              \/ /\ i > 2
                 /\ outlog[i - 1].ev = "not_connected"
                 /\ outlog[i - 2] = Call(ProcessFrame(outlog[i].frame))
              \/ /\ i > 3
                 /\ outlog[i - 1].ev = "send_end"
                 /\ outlog[i - 2].ev = "send_json"
                 /\ outlog[i - 3] = Call(ProcessFrame(outlog[i].frame))
    /\ out_pc = "sending" => outlog[Len(outlog)].ev = "send_json"

\* a text frame was pushed on after its send raised, and a response-end frame
\* after its send returned
C10_Witness ==
    \E i, j \in DOMAIN outlog :
        /\ i > 1 /\ j > 1
        /\ outlog[i] = PushFrame(TextFrame(Str("a")))
        /\ outlog[i - 1] = SendEnd("raised")
        /\ outlog[j] = PushFrame(LLMFullResponseEndFrame)
        /\ outlog[j - 1] = SendEnd("returned")

---------------------------------------------------------------------------
(* C11 *)

IsRaise(e) == e.ev = "raise"

\* the language message carrying exactly the languages given
IsLanguageMessageOf(msg, tts, stt) ==
    /\ DOMAIN msg = {"type"} \cup (IF tts # None THEN {"ttsLanguage"} ELSE {})
                             \cup (IF stt # None THEN {"transcriptionLanguage"} ELSE {})
    /\ msg["type"] = Str("language")
    /\ tts # None => msg["ttsLanguage"] = tts
    /\ stt # None => msg["transcriptionLanguage"] = stt

\* C11: send_language with both languages omitted raises ValueError to its
\* caller at once and hands nothing to the network, connected or not; with one
\* language or both, the message it sends (when the connection is connected)
\* has the type and exactly the languages given, and nothing is raised.
C11_LanguageMessage ==
    \A i \in DOMAIN outlog :
        (outlog[i].ev = "call" /\ outlog[i].op.op = "send_language") =>
            LET tts == outlog[i].op.tts_language
                stt == outlog[i].op.transcription_language
            IN  /\ i < Len(outlog)
                /\ IF tts = None /\ stt = None
                   THEN outlog[i + 1] = Raise("ValueError")
                   ELSE /\ outlog[i + 1].ev \in {"send_json", "not_connected"}
                        /\ IsLanguageMessageOf(outlog[i + 1].message, tts, stt)
                        /\ client_state = CONNECTED => outlog[i + 1].ev = "send_json"

\* a message with the transcription language only was sent, and after the
\* peer disconnected a call with both languages sent nothing and a call with
\* none raised
C11_Witness ==
    /\ client_state = DISCONNECTED
    /\ \E i \in DOMAIN outlog :
          /\ outlog[i].ev = "send_json"
          /\ DOMAIN outlog[i].message = {"type", "transcriptionLanguage"}
    /\ \E i \in DOMAIN outlog :
          /\ outlog[i].ev = "not_connected"
          /\ DOMAIN outlog[i].message = {"type", "ttsLanguage", "transcriptionLanguage"}
    /\ outlog[Len(outlog)] = Raise("ValueError")

---------------------------------------------------------------------------
(* C12 *)

\* the positions of the setup messages received
SetupRecvs == { i \in DOMAIN inlog : RecvOfType(i, "setup") }

\* C12: once a setup message has been received, session_id and call_sid are
\* the sessionId and callSid of the first one, whatever was received after it.
C12_IdentityFromFirstSetup ==
    SetupRecvs # {} =>
        LET first == CHOOSE i \in SetupRecvs : \A j \in SetupRecvs : i <= j
            m     == inlog[first].payload.dict
        IN  /\ session_id = Get(m, "sessionId", None)
            /\ call_sid = Get(m, "callSid", None)

---------------------------------------------------------------------------
(* C13, C14, C15 *)

IsStartCall(e)  == e.ev = "call" /\ e.op = "start"
IsStopCall(e)   == e.ev = "call" /\ e.op \in {"stop", "cancel"}
IsCreateTask(e) == e.ev = "create_task"

\* C13: the first call of start() creates the receive task and sets the
\* latch; every later call changes nothing of the relay (only the call is
\* logged), after a stop() or cancel() too; so the task is created at most
\* once and the relay holds at most the one task.
C13_StartIdempotent ==
    /\ [](Count(inlog, IsCreateTask) <= 1 /\ receive_task \in {None, Task})
    /\ [][ Count(inlog', IsStartCall) = Count(inlog, IsStartCall) + 1 =>
              IF Count(inlog, IsStartCall) = 0
              THEN /\ inlog' = inlog \o <<Call("start"), CreateTask>>
                   /\ receive_task = None /\ receive_task' = Task
                   /\ task_pc' = "iter"
                   /\ ~initialized /\ initialized'
              ELSE /\ inlog' = Append(inlog, Call("start"))
                   /\ initialized /\ initialized'
                   /\ UNCHANGED <<receive_task, task_pc, client_state, callbacks,
                                  session_id, call_sid, message, out_vars>> ]_vars

\* start() was called twice while the loop was waiting for a payload
C13_Witness ==
    /\ Count(inlog, IsStartCall) >= 2
    /\ Count(inlog, IsCreateTask) = 1
    /\ task_pc = "iter" /\ receive_task = Task

\* C14: once stop() or cancel() has been called (and has returned) with the
\* receive task, if any, created before the call, the relay holds no task and
\* the receive loop is not running: it was never started, had already
\* returned, or was cancelled where it was suspended, waiting for a payload
\* or inside a callback.
C14_NoTaskAfterStop ==
    (\E i \in DOMAIN inlog :
        /\ IsStopCall(inlog[i])
        /\ \A j \in DOMAIN inlog : IsCreateTask(inlog[j]) => j < i)
    =>  /\ receive_task = None
        /\ task_pc \in {"none", "done", "cancelled"}
        /\ inlog[Len(inlog)] \in {Return, Call("start")}

\* stop() or cancel() has returned after cancelling the loop inside a callback
C14_Witness ==
    /\ \E i \in DOMAIN inlog : inlog[i] = CallbackEnd("cancelled")
    /\ inlog[Len(inlog)] = Return
    /\ task_pc = "cancelled"

\* C15: every call of stop() or cancel(), the first or a repeated one, before
\* start() or on a connection no longer connected, returns normally; it calls
\* close() once if it finds the connection CONNECTED and not at all
\* otherwise, and returns whether close() returned or raised.
C15_StopNeverRaises ==
    [][ Count(inlog', IsStopCall) = Count(inlog, IsStopCall) + 1 =>
          /\ inlog'[Len(inlog')] = Return
          /\ Count(inlog', IsRaise) = 0
          /\ Count(inlog', IsClose)
                = Count(inlog, IsClose) + IF client_state = CONNECTED THEN 1 ELSE 0 ]_vars

\* cancel() was called before start() and its close() raised; later stop()
\* was called after the peer had disconnected
C15_Witness ==
    /\ Len(inlog) > 3
    /\ inlog[1] = Call("cancel")
    /\ inlog[3] = CloseEnd("raised")
    /\ client_state = DISCONNECTED
    /\ \E i, j \in DOMAIN inlog :
          i < j /\ inlog[i] = LoopEnd("closed") /\ inlog[j] = Call("stop")

---------------------------------------------------------------------------
(* C16 *)

IsCallback(e)  == e.ev = "callback"
IsPushFrame(e) == e.ev = "push_frame"

\* the first position after i where the loop is back at iter_text(): a payload
\* is received or the stream ends; past the end of the log if there is none
HandlingEnd(i) ==
    LET later == { j \in DOMAIN inlog :
                     /\ j > i
                     /\ \/ inlog[j].ev = "recv"
                        \/ inlog[j] \in {LoopEnd("closed"), LoopEnd("receive_raised")} }
    IN  IF later = {} THEN Len(inlog) + 1
        ELSE CHOOSE j \in later : \A k \in later : j <= k

\* what the handling of the payload received at i has added to the log
Handling(i) == SubSeq(inlog, i + 1, HandlingEnd(i) - 1)

\* the value of the key k of the object d, or dflt when d has no such key
Field_or(d, k, dflt) == IF k \in DOMAIN d THEN d[k] ELSE dflt

\* the callback call an interrupt or dtmf message is to cause
ExpectedCallback(d) ==
    IF d.type = Str("interrupt")
    THEN Callback("on_interrupt",
            [utterance_until_interrupt   |-> Field_or(d, "utteranceUntilInterrupt", None),
             duration_until_interrupt_ms |-> Field_or(d, "durationUntilInterruptMs", None)])
    ELSE Callback("on_dtmf", [digit |-> Field_or(d, "digit", Str(""))])

\* C16: an interrupt or dtmf message causes no frame to be pushed downstream;
\* it causes one call of on_interrupt (with the utterance and the duration)
\* or of on_dtmf (with the digit) when that callback is registered, and no
\* callback call otherwise.
C16_InterruptDtmfCallbackOnly ==
    \A i \in DOMAIN inlog :
        (RecvOfType(i, "interrupt") \/ RecvOfType(i, "dtmf")) =>
            LET d == inlog[i].payload.dict
                expected == ExpectedCallback(d)
            IN  /\ Count(Handling(i), IsPushFrame) = 0
                /\ SelectSeq(Handling(i), IsCallback)
                      = IF expected.name \in callbacks THEN <<expected>> ELSE <<>>

---------------------------------------------------------------------------
(* C17 *)

\* every payload received so far is a setup, interrupt, dtmf or error message
OnlyCallbackKinds ==
    \A i \in DOMAIN inlog :
        inlog[i].ev = "recv" =>
            \/ RecvOfType(i, "setup") \/ RecvOfType(i, "interrupt")
            \/ RecvOfType(i, "dtmf") \/ RecvOfType(i, "error")

\* C17: with no callback registered and only setup, interrupt, dtmf and error
\* messages received, no handler has raised and no callback was awaited; the
\* session identity is that of the latest setup message; every error message
\* is followed at once by its ErrorFrame; interrupt and dtmf messages cause
\* no frame.
C17_NoCallbacksNoError ==
    (callbacks = {} /\ OnlyCallbackKinds) =>
        /\ task_pc # "callback"
        /\ \A i \in DOMAIN inlog :
              /\ inlog[i] # LoopEnd("handler_raised")
              /\ inlog[i].ev # "callback"
              /\ RecvOfType(i, "error") =>
                    /\ i < Len(inlog)
                    /\ inlog[i + 1] = PushFrame(ErrorFrame(
                            Field_or(inlog[i].payload.dict, "description",
                                     Str("Unknown error"))))
              /\ (RecvOfType(i, "interrupt") \/ RecvOfType(i, "dtmf")) =>
                    Count(Handling(i), IsPushFrame) = 0
        /\ SetupRecvs # {} =>
              LET latest == CHOOSE i \in SetupRecvs : \A j \in SetupRecvs : j <= i
                  m      == inlog[latest].payload.dict
              IN  /\ session_id = Field_or(m, "sessionId", None)
                  /\ call_sid = Field_or(m, "callSid", None)

\* with no callback registered a setup and then an error message were handled
\* and the stream was read to its end
C17_Witness ==
    /\ callbacks = {}
    /\ OnlyCallbackKinds
    /\ session_id = Str("VX1") /\ call_sid = Str("CA1")
    /\ \E i, j, k \in DOMAIN inlog :
          /\ i < j /\ j < k
          /\ RecvOfType(i, "setup")
          /\ RecvOfType(j, "error")
          /\ inlog[k] = LoopEnd("closed")

---------------------------------------------------------------------------
(* C18 *)

\* the callback of each message type
CallbackOf == [setup |-> "on_setup", interrupt |-> "on_interrupt",
               dtmf |-> "on_dtmf", error |-> "on_error"]

\* C18: a message whose callback is registered is followed at once by the
\* call of that callback, and a callback is called for nothing else, so the
\* callbacks are called in the order of the messages; while a callback has
\* not returned the loop is suspended in it and receives nothing; and any
\* payload received after a callback call comes after that callback's return
\* and, for an error message, after its ErrorFrame.
C18_CallbacksAwaitedInline ==
    /\ task_pc = "callback" => inlog[Len(inlog)].ev = "callback"
    /\ \A i \in DOMAIN inlog :
          \A t \in DOMAIN CallbackOf :
              (RecvOfType(i, t) /\ CallbackOf[t] \in callbacks) =>
                  /\ i < Len(inlog)
                  /\ IsCallbackOf(inlog[i + 1], CallbackOf[t])
    /\ \A j \in DOMAIN inlog :
          inlog[j].ev = "callback" =>
              /\ j > 1
              /\ \E t \in DOMAIN CallbackOf :
                    RecvOfType(j - 1, t) /\ inlog[j].name = CallbackOf[t]
              /\ j = Len(inlog) => task_pc = "callback"
              /\ \A k \in DOMAIN inlog :
                    (k > j /\ inlog[k].ev = "recv") =>
                        /\ inlog[j + 1] = CallbackEnd("returned")
                        /\ inlog[j].name = "on_error" =>
                              (j + 2 < k /\ IsErrorPush(inlog[j + 2]))

\* on_error was called and returned, its ErrorFrame was pushed, and then
\* another callback was called for the next message and returned
C18_Witness ==
    \E j, k \in DOMAIN inlog :
        /\ j < k
        /\ IsCallbackOf(inlog[j], "on_error")
        /\ inlog[k].ev = "callback"
        /\ inlog[Len(inlog)] = CallbackEnd("returned")

---------------------------------------------------------------------------
(* C19 *)

\* a text message was built, and sent or skipped
IsTextMessage(e) ==
    e.ev \in {"send_json", "not_connected"} /\ e.message.type = Str("text")

\* C19: every text message that is not final carries the interruptible value
\* the relay was constructed with, and every final one carries false.
C19_InterruptibleOnTextMessages ==
    \A i \in DOMAIN outlog :
        IsTextMessage(outlog[i]) =>
            outlog[i].message.interruptible
                = IF outlog[i].message.last = Bool(TRUE) THEN Bool(FALSE)
                  ELSE Bool(interruptible)

\* a relay constructed with interruptible=False has sent a token and then
\* the final message
C19_Witness ==
    /\ interruptible = FALSE
    /\ \E i, j \in DOMAIN outlog :
          /\ i < j
          /\ outlog[i].ev = "send_json"
          /\ outlog[i].message.type = Str("text")
          /\ outlog[i].message.last = Bool(FALSE)
          /\ outlog[j].ev = "send_json"
          /\ outlog[j].message.type = Str("text")
          /\ outlog[j].message.last = Bool(TRUE)

---------------------------------------------------------------------------
(* C20 *)

\* C20: a frame that is neither a TextFrame nor an LLMFullResponseEndFrame is
\* handed to the base class's process_frame and the call returns: no message
\* is built, sent or skipped for it and the relay does not push it itself.
\* The base class gets no other frame.
C20_OtherFramesPassThrough ==
    \A i \in DOMAIN outlog :
        /\ (outlog[i].ev = "call" /\ outlog[i].op.op = "process_frame"
              /\ ~IsRelayedFrameCall(outlog[i])) =>
                 /\ i + 2 <= Len(outlog)
                 /\ outlog[i + 1] = SuperProcessFrame(outlog[i].op.frame)
                 /\ outlog[i + 2] = Return
        /\ outlog[i].ev = "super_process_frame" =>
                 /\ i > 1
                 /\ outlog[i - 1] = Call(ProcessFrame(outlog[i].frame))
                 /\ ~IsRelayedFrameCall(outlog[i - 1])

\* a BotSpeakingFrame was passed through after one text message was sent and
\* before another, and nothing else was sent
C20_Witness ==
    \E i \in DOMAIN outlog :
        /\ outlog[i] = SuperProcessFrame(BotSpeakingFrame)
        /\ Count(SubSeq(outlog, 1, i), IsTextSend) = 1
        /\ Count(outlog, IsTextSend) = 2
        /\ Count(outlog, IsSendJson) = 2

---------------------------------------------------------------------------
(* C21, C22 *)

\* C21: no exception leaves the receive task: when the receive raises, a
\* handler raises or a callback raises, the loop ends, the CancelFrame is
\* pushed and the coroutine returns; the task is never left ended by an
\* exception.
C21_NoExceptionLeavesTheLoop ==
    /\ task_pc \in {"none", "iter", "callback", "done", "cancelled"}
    /\ \A i \in DOMAIN inlog :
          /\ inlog[i].ev # "raise"
          /\ inlog[i] \in {LoopEnd("receive_raised"), LoopEnd("handler_raised")} =>
                /\ i < Len(inlog)
                /\ inlog[i + 1] = PushFrame(CancelFrame)
                /\ task_pc = "done"

\* a callback has raised and the task has returned
C21_Witness ==
    /\ task_pc = "done"
    /\ \E i \in DOMAIN inlog :
          /\ inlog[i] = CallbackEnd("raised")
          /\ i < Len(inlog) /\ inlog[i + 1] = LoopEnd("handler_raised")

\* the message has a type that is none of the five, or no type
IsUnknownMsg(p) ==
    /\ "dict" \in DOMAIN p
    /\ \/ "type" \notin DOMAIN p.dict
       \/ p.dict["type"] \notin {Str("setup"), Str("prompt"), Str("interrupt"),
                                 Str("dtmf"), Str("error")}

\* C22: receiving a message of an unknown type, or without a type, adds only
\* its reception to the log (no callback, no frame), leaves session_id,
\* call_sid and every other field as they are, and leaves the loop waiting
\* for the next payload.
C22_UnknownTypeIgnored ==
    [][ (NumReceived' = NumReceived + 1 /\ IsUnknownMsg(message')) =>
            /\ inlog' = Append(inlog, Recv(message'))
            /\ task_pc = "iter" /\ task_pc' = "iter"
            /\ UNCHANGED <<client_state, callbacks, session_id, call_sid,
                           initialized, receive_task, out_vars>> ]_vars

\* a setup, then a message without a type, were received: the identity is
\* the setup's and the loop is waiting
C22_Witness ==
    /\ task_pc = "iter"
    /\ session_id = Str("VX2") /\ call_sid = Str("CA2")
    /\ inlog[Len(inlog)] = Recv(JsonDict([token |-> Str("x")]))

---------------------------------------------------------------------------
(* C23, C24 *)

\* C23: in the constructed facade the TransportParams object has its four
\* media flags false, whether the caller passed an object (with any flags) or
\* none, and both relays were constructed with a reference to that object.
C23_MediaDisabled ==
    transport # None =>
        /\ \A f \in MediaFlags : transport.heap[transport._params][f] = FALSE
        /\ transport._input._params = transport._params
        /\ transport._output._params = transport._params
        /\ transport._params = IF facade_log[1].params # None THEN "params_arg"
                               ELSE "params_new"

\* the facade was constructed from a TransportParams with the four flags
\* true, and output() has returned a relay that refers to that object, now
\* with the four flags false
C23_Witness ==
    /\ transport # None
    /\ facade_log[1].params = TransportParams(TRUE, TRUE, TRUE, TRUE)
    /\ transport.heap["params_arg"] = TransportParams(FALSE, FALSE, FALSE, FALSE)
    /\ \E i \in DOMAIN facade_log :
          /\ IsGot(facade_log[i])
          /\ facade_log[i].accessor = "output"
          /\ facade_log[i].relay._params = "params_arg"

\* C24: every call of input() has returned the input relay created by the
\* constructor and every call of output() the output relay created by it, so
\* any two calls return the same object; both relays hold the websocket the
\* facade was given, the input relay holds the callbacks object it was given
\* (when one was given) and the output relay its interruptible value.
C24_AccessorsStable ==
    transport # None =>
        LET a == facade_log[1]
        IN  /\ \A i \in DOMAIN facade_log :
                  IsGot(facade_log[i]) =>
                      /\ facade_log[i].relay
                            = IF facade_log[i].accessor = "input"
                              THEN transport._input ELSE transport._output
                      /\ facade_log[i].relay.obj
                            = IF facade_log[i].accessor = "input"
                              THEN "input_1" ELSE "output_1"
            /\ transport._input._websocket = a.websocket
            /\ transport._output._websocket = a.websocket
            /\ a.callbacks # None =>
                  /\ transport._input._callbacks = a.callbacks
                  /\ callbacks = a.callbacks.registered
            /\ a.callbacks = None => callbacks = {}
            /\ transport._output._interruptible = a.interruptible
            /\ interruptible = a.interruptible

\* input() was called twice on a facade constructed with a callback and with
\* interruptible=False
C24_Witness ==
    /\ Len(facade_log) = 3
    /\ facade_log[1].callbacks
          = [obj |-> "callbacks_arg", registered |-> {"on_setup"}]
    /\ facade_log[1].interruptible = FALSE
    /\ facade_log[2].ev = "got" /\ facade_log[2].accessor = "input"
    /\ facade_log[3] = facade_log[2]

---------------------------------------------------------------------------
(* C25 *)

IsPlayCall(e) == e.ev = "call" /\ e.op.op = "send_play"
IsPlaySend(e) == e.ev = "send_json" /\ e.message.type = Str("play")

\* C25: each call of send_play builds one message with exactly the keys
\* type, source, loop, preemptible and interruptible: the source given, the
\* loop given or 1, the preemptible given or false, and the interruptible
\* given (true or false) or else the relay's default; on a connected
\* connection that message is sent, once.
C25_PlayMessage ==
    /\ \A i \in DOMAIN outlog :
          IsPlayCall(outlog[i]) =>
              /\ i < Len(outlog)
              /\ outlog[i + 1].ev \in {"send_json", "not_connected"}
              /\ LET op == outlog[i].op
                     m  == outlog[i + 1].message
                 IN  /\ DOMAIN m = {"type", "source", "loop", "preemptible",
                                    "interruptible"}
                     /\ m["type"] = Str("play")
                     /\ m["source"] = op.source
                     /\ m["loop"] = IF op.loop = Absent THEN Int(1) ELSE op.loop
                     /\ m["preemptible"] = IF op.preemptible = Absent
                                           THEN Bool(FALSE) ELSE op.preemptible
                     /\ m["interruptible"]
                           = IF op.interruptible \in {Absent, None}
                             THEN Bool(interruptible) ELSE op.interruptible
    /\ Count(outlog, IsPlaySend) <= Count(outlog, IsPlayCall)
    /\ client_state = CONNECTED =>
          Count(outlog, IsPlaySend) = Count(outlog, IsPlayCall)

\* a relay with the default true has sent a play with interruptible=False
\* given and a play with only the source given
C25_Witness ==
    /\ interruptible = TRUE
    /\ \E i, j \in DOMAIN outlog :
          /\ i + 1 \in DOMAIN outlog /\ j + 1 \in DOMAIN outlog
          /\ outlog[i] = Call(Play(Str("u"), Absent, Bool(FALSE), Absent))
          /\ outlog[i + 1].ev = "send_json"
          /\ outlog[i + 1].message.interruptible = Bool(FALSE)
          /\ outlog[j] = Call(Play(Str("u"), Absent, Absent, Absent))
          /\ outlog[j + 1].ev = "send_json"
          /\ outlog[j + 1].message.loop = Int(1)

---------------------------------------------------------------------------
(* C26 *)

IsEndCall(e) == e.ev = "call" /\ e.op.op = "send_end_session"
IsEndSend(e) == e.ev = "send_json" /\ e.message.type = Str("end")

\* C26: each call of send_end_session builds one end message, sent once on
\* a connected connection; the message has the key handoffData, with the
\* value given, when handoff data was given (an empty string too), and has
\* only its type when the argument was omitted or None.
C26_EndMessage ==
    /\ \A i \in DOMAIN outlog :
          IsEndCall(outlog[i]) =>
              /\ i < Len(outlog)
              /\ outlog[i + 1].ev \in {"send_json", "not_connected"}
              /\ LET h == outlog[i].op.handoff_data
                     m == outlog[i + 1].message
                 IN  /\ m["type"] = Str("end")
                     /\ IF h \in {Absent, None}
                        THEN DOMAIN m = {"type"}
                        ELSE /\ DOMAIN m = {"type", "handoffData"}
                             /\ m["handoffData"] = h
    /\ Count(outlog, IsEndSend) <= Count(outlog, IsEndCall)
    /\ client_state = CONNECTED =>
          Count(outlog, IsEndSend) = Count(outlog, IsEndCall)

\* an end message with handoff data and one without were sent
C26_Witness ==
    \E i, j \in DOMAIN outlog :
        /\ outlog[i] = SendJson([type |-> Str("end"), handoffData |-> Str("h")])
        /\ outlog[j] = SendJson([type |-> Str("end")])
        /\ j > 1 /\ outlog[j - 1] = Call(EndSession(Absent))

---------------------------------------------------------------------------
(* C27 *)

\* the wire key of each field of the setup event
WireKey ==
    [session_id |-> "sessionId", call_sid |-> "callSid",
     account_sid |-> "accountSid", from_number |-> "from", to_number |-> "to",
     direction |-> "direction", call_status |-> "callStatus",
     call_type |-> "callType", caller_name |-> "callerName",
     forwarded_from |-> "forwardedFrom", parent_call_sid |-> "parentCallSid",
     custom_parameters |-> "customParameters"]

\* what a field of the setup event holds when the message lacks its key
WhenAbsent(f) ==
    IF f \in {"session_id", "call_sid"} THEN Str("")
    ELSE IF f = "custom_parameters" THEN Map(<<>>)
    ELSE None

\* C27: with on_setup registered every setup message is followed at once by
\* one call of on_setup, whose event has the twelve fields, each holding the
\* value of its wire key when the message has it; when it has not, the
\* optional fields are None, custom_parameters is the empty map, and
\* session_id and call_sid are the empty string.
C27_SetupEventMapping ==
    \A i \in DOMAIN inlog :
        (RecvOfType(i, "setup") /\ "on_setup" \in callbacks) =>
            /\ i < Len(inlog)
            /\ Count(Handling(i), IsCallback) = 1
            /\ inlog[i + 1].ev = "callback"
            /\ inlog[i + 1].name = "on_setup"
            /\ LET m     == inlog[i].payload.dict
                   event == inlog[i + 1].arg
               IN  /\ DOMAIN event = DOMAIN WireKey
                   /\ \A f \in DOMAIN WireKey :
                         event[f] = IF WireKey[f] \in DOMAIN m THEN m[WireKey[f]]
                                    ELSE WhenAbsent(f)

\* on_setup was called for a setup message with every field and then for one
\* with neither identifiers nor optional fields but the direction
C27_Witness ==
    \E i, j \in DOMAIN inlog :
        /\ i < j
        /\ inlog[i] = Callback("on_setup", SetupEventData(SetupFull))
        /\ inlog[j] = Callback("on_setup", SetupEventData(SetupBare))
        /\ inlog[j].arg.custom_parameters = Map(<<>>)
        /\ inlog[j].arg.from_number = None

---------------------------------------------------------------------------
(* C28 *)

\* C28: the TranscriptionFrame pushed for a final prompt with a voicePrompt
\* that is not blank is pushed right after the prompt is received and has the
\* voicePrompt as received, leading and trailing whitespace included, as
\* text, the empty string as user_id, and the message's lang, or None when
\* it has none, as language.
C28_TranscriptionFields ==
    \A i \in DOMAIN inlog :
        (RecvOfType(i, "prompt") /\ FinalNonBlank(inlog[i].payload.dict)) =>
            /\ i < Len(inlog)
            /\ IsTranscriptionPush(inlog[i + 1])
            /\ LET d == inlog[i].payload.dict
                   f == inlog[i + 1].frame
               IN  /\ f.text = d.voicePrompt
                   /\ f.user_id = Str("")
                   /\ f.language = IF "lang" \in DOMAIN d THEN d.lang ELSE None

\* a frame with the text "h " and no language, and a frame with the
\* language en-US, were pushed
C28_Witness ==
    \E i, j \in DOMAIN inlog :
        /\ IsTranscriptionPush(inlog[i])
        /\ inlog[i].frame.text = Str(<<"h", " ">>)
        /\ inlog[i].frame.language = None
        /\ IsTranscriptionPush(inlog[j])
        /\ inlog[j].frame.language = Str("en-US")

---------------------------------------------------------------------------
(* C29 *)

\* C29: as long as no setup message has been received session_id and
\* call_sid are None; and a step changes either of them only if it is the
\* reception of a setup message: no prompt, interrupt, dtmf, error, unknown
\* or non-JSON payload, no callback's end, no end of the stream and no
\* outbound operation does.
C29_IdentityOnlyFromSetup ==
    /\ [](SetupRecvs = {} => (session_id = None /\ call_sid = None))
    /\ [][ (session_id' # session_id \/ call_sid' # call_sid) =>
              /\ NumReceived' = NumReceived + 1
              /\ "dict" \in DOMAIN message'
              /\ "type" \in DOMAIN message'.dict
              /\ message'.dict["type"] = Str("setup") ]_vars

\* a prompt and an error message were received and a text token was sent,
\* with no setup message so far
C29_Witness ==
    /\ SetupRecvs = {}
    /\ session_id = None /\ call_sid = None
    /\ \E i, j \in DOMAIN inlog :
          /\ RecvOfType(i, "prompt") /\ RecvOfType(j, "error")
    /\ Count(outlog, IsTextSend) > 0

---------------------------------------------------------------------------
(* C30 *)

\* an event of the receive loop: a reception, a callback, a frame, its end
IsLoopEvent(e) ==
    e.ev \in {"recv", "callback", "callback_end", "push_frame", "loop_end"}

\* C30: every frame the receive loop has pushed is a TranscriptionFrame, an
\* ErrorFrame or a CancelFrame.  An ErrorFrame is pushed in the handling of
\* an error message and carries its description.  A CancelFrame is pushed
\* right after the loop has left the `async for`, and is the last thing the
\* loop does: the task has returned and nothing is received, called or
\* pushed after it.
C30_OnlyThreeKindsOfFrames ==
    \A i \in DOMAIN inlog :
        inlog[i].ev = "push_frame" =>
            /\ inlog[i].frame.frame
                  \in {"TranscriptionFrame", "ErrorFrame", "CancelFrame"}
            /\ IsErrorPush(inlog[i]) =>
                  \E r \in DOMAIN inlog :
                      /\ r < i /\ i < HandlingEnd(r)
                      /\ RecvOfType(r, "error")
                      /\ inlog[i].frame.error
                            = Field_or(inlog[r].payload.dict, "description",
                                       Str("Unknown error"))
            /\ IsCancelPush(inlog[i]) =>
                  /\ i > 1 /\ inlog[i - 1].ev = "loop_end"
                  /\ task_pc = "done"
                  /\ \A k \in DOMAIN inlog : k > i => ~IsLoopEvent(inlog[k])

\* a TranscriptionFrame, then an ErrorFrame, then the CancelFrame were pushed
C30_Witness ==
    \E i, j, k \in DOMAIN inlog :
        /\ i < j /\ j < k
        /\ IsTranscriptionPush(inlog[i])
        /\ IsErrorPush(inlog[j])
        /\ IsCancelPush(inlog[k])

---------------------------------------------------------------------------
(* C31 *)

InputEvents  == {"recv", "callback", "callback_end", "push_frame", "loop_end",
                 "create_task", "cancel_task", "close"}
OutputEvents == {"call", "send_json", "send_end", "not_connected",
                 "super_process_frame", "push_frame", "return", "raise"}

\* a step of the input relay: of the receive loop or of start
InputStep ==
    \/ inlog' # inlog \/ task_pc' # task_pc \/ message' # message
    \/ session_id' # session_id \/ call_sid' # call_sid
    \/ initialized' # initialized \/ receive_task' # receive_task

\* a step of the output relay: of an outbound operation
OutputStep == outlog' # outlog \/ out_pc' # out_pc \/ out_op' # out_op

\* C31: the relays are independent.  A step of the input relay (a message
\* handled, a callback ended, the loop ended) sends nothing: the output
\* relay's log and the operation it is in are unchanged.  A step of an
\* outbound operation invokes no callback, pushes no inbound-side frame,
\* leaves the session identity, the receive task and the connection's state
\* as they are, and closes nothing.  Neither log holds an event of the other
\* relay's kind, and the frames the output relay pushes are the ones it was
\* given to process.
C31_RelaysIndependent ==
    /\ [](/\ \A i \in DOMAIN inlog : inlog[i].ev \in InputEvents
          /\ \A i \in DOMAIN outlog :
                /\ outlog[i].ev \in OutputEvents
                /\ outlog[i].ev = "push_frame" =>
                      outlog[i].frame.frame
                          \in {"TextFrame", "LLMFullResponseEndFrame"})
    /\ [][ /\ InputStep => UNCHANGED out_vars
           /\ OutputStep => /\ UNCHANGED in_vars
                            /\ UNCHANGED client_state ]_vars

\* a text token is being sent while the receive loop is suspended in a
\* callback, after a setup message has given the session its identity and a
\* keypress was reported
C31_Witness ==
    /\ out_pc = "sending"
    /\ task_pc = "callback"
    /\ session_id = Str("VX2")
    /\ \E i \in DOMAIN inlog : RecvOfType(i, "dtmf")
    /\ \E i \in DOMAIN outlog : outlog[i].ev = "return"

---------------------------------------------------------------------------
(* C32 *)

IsEventPush(e) == IsTranscriptionPush(e) \/ IsErrorPush(e)

\* the position of the last payload received before position k, 0 if none
LastRecvBefore(k) ==
    LET earlier == { r \in DOMAIN inlog : r < k /\ inlog[r].ev = "recv" }
    IN  IF earlier = {} THEN 0
        ELSE CHOOSE r \in earlier : \A q \in earlier : q <= r

\* the frame pushed at k is the one the message received at r is to cause
EventOfMessage(k, r) ==
    LET d == inlog[r].payload.dict
    IN  IF IsTranscriptionPush(inlog[k])
        THEN /\ RecvOfType(r, "prompt")
             /\ inlog[k].frame.text = Field_or(d, "voicePrompt", Str(<<>>))
        ELSE /\ RecvOfType(r, "error")
             /\ inlog[k].frame.error = Field_or(d, "description", Str("Unknown error"))

\* C32: every transcription and error event is emitted in the handling of the
\* message that causes it, which is the last message received: before the
\* next message is received and before the stream ends.  So the events of an
\* earlier message precede those of a later one.  The CancelFrame is the
\* loop's last event: no transcription or error event is after it.
C32_EventsInMessageOrder ==
    \A k \in DOMAIN inlog :
        /\ IsEventPush(inlog[k]) =>
              LET r == LastRecvBefore(k)
              IN  /\ r > 0
                  /\ k < HandlingEnd(r)
                  /\ EventOfMessage(k, r)
                  /\ \A j \in DOMAIN inlog :
                        (j > k /\ IsEventPush(inlog[j])) => LastRecvBefore(j) > r
        /\ IsCancelPush(inlog[k]) =>
              \A j \in DOMAIN inlog : j > k => ~IsEventPush(inlog[j])

\* two error messages were received; the event of the first was emitted before
\* the second was received, the event of the second after, and the CancelFrame
\* last
C32_Witness ==
    \E r1, k1, r2, k2, c \in DOMAIN inlog :
        /\ r1 < k1 /\ k1 < r2 /\ r2 < k2 /\ k2 < c
        /\ inlog[r1] = Recv(JsonDict([type |-> Str("error"), description |-> Str("boom")]))
        /\ inlog[k1] = PushFrame(ErrorFrame(Str("boom")))
        /\ inlog[r2] = Recv(JsonDict([type |-> Str("error")]))
        /\ inlog[k2] = PushFrame(ErrorFrame(Str("Unknown error")))
        /\ IsCancelPush(inlog[c])

---------------------------------------------------------------------------
(* C33 *)

IsOutputPush(e) == e.ev = "push_frame"

\* C33: the frames the output relay has pushed on are, in order and unchanged,
\* the text and response-end frames it was given to process, each once: all of
\* them when no operation is in progress, all but the last while the send for
\* the last is in progress.  This holds whether the send was skipped on a
\* disconnected connection, returned or raised.
C33_ForwardedExactlyOnce ==
    LET F == SelectSeq(outlog, IsRelayedFrameCall)
        P == SelectSeq(outlog, IsOutputPush)
    IN  /\ Len(P) = IF out_pc = "sending" THEN Len(F) - 1 ELSE Len(F)
        /\ \A i \in DOMAIN P : P[i].frame = F[i].op.frame

\* a text frame was forwarded after its send raised, and a response-end frame
\* after its send was skipped on the disconnected connection
C33_Witness ==
    \E i, j \in DOMAIN outlog :
        /\ i > 1 /\ j > i + 1
        /\ outlog[i - 1] = SendEnd("raised")
        /\ outlog[i] = PushFrame(TextFrame(Str("b")))
        /\ outlog[j - 1].ev = "not_connected"
        /\ outlog[j] = PushFrame(LLMFullResponseEndFrame)
        /\ out_pc = "idle"

---------------------------------------------------------------------------
(* C34 *)

\* start() has been called and, after it, stop() or cancel()
StoppedAfterStart(L) ==
    \E i, j \in DOMAIN L : i < j /\ IsStartCall(L[i]) /\ IsStopCall(L[j])

---------------------------------------------------------------------------
(* C35 *)

IsReturn(e) == e.ev = "return"

\* stop() or cancel() has returned
StopReturned == Count(inlog, IsReturn) > 0

\* C35: nothing the receive loop does on a payload is after the return of a
\* stop() or cancel(): no payload is taken from the connection, no callback is
\* called and no callback returns into the loop, no TranscriptionFrame or
\* ErrorFrame is pushed; and no step changes session_id or call_sid once a
\* stop() or cancel() has returned.  The loop was cancelled where it was
\* suspended, and a loop started afterwards finds the connection closed.
C35_NothingAfterStop ==
    /\ [](\A i, k \in DOMAIN inlog :
            (IsReturn(inlog[i]) /\ k > i) =>
                /\ inlog[k].ev \notin {"recv", "callback", "callback_end"}
                /\ ~IsEventPush(inlog[k]))
    /\ [][ StopReturned => UNCHANGED <<session_id, call_sid>> ]_vars

\* a setup message was handled; then, with the loop inside on_error for an
\* error message, stop() or cancel() cancelled it and returned: the ErrorFrame
\* of that message was not pushed
C35_Witness ==
    \E r, c, i \in DOMAIN inlog :
        /\ r < c /\ c < i
        /\ session_id = Str("VX2")
        /\ RecvOfType(r, "error")
        /\ inlog[r + 1].ev = "callback"
        /\ inlog[c] = CallbackEnd("cancelled")
        /\ IsReturn(inlog[i])
        /\ Count(inlog, IsErrorPush) = 0
        /\ task_pc = "cancelled"

---------------------------------------------------------------------------
(* C36 *)

---------------------------------------------------------------------------
(* C37 *)

\* C37: with on_error registered, an error message is handled by calling
\* on_error with its description at once, and the ErrorFrame of a message is
\* pushed only right after that call has returned: every ErrorFrame in the log
\* follows the reception of its message, the call of on_error and the
\* callback's return, in this order and with nothing between; while the loop
\* is inside on_error the message's ErrorFrame has not been pushed.
C37_ErrorCallbackBeforeFrame ==
    "on_error" \in callbacks =>
        /\ \A r \in DOMAIN inlog :
              RecvOfType(r, "error") =>
                  /\ r < Len(inlog)
                  /\ inlog[r + 1] = Callback("on_error",
                        [description |-> Field_or(inlog[r].payload.dict,
                                                  "description", Str("Unknown error"))])
        /\ \A k \in DOMAIN inlog :
              IsErrorPush(inlog[k]) =>
                  /\ k > 3
                  /\ inlog[k - 1] = CallbackEnd("returned")
                  /\ inlog[k - 2] = Callback("on_error",
                                             [description |-> inlog[k].frame.error])
                  /\ RecvOfType(k - 3, "error")
        /\ (task_pc = "callback" /\ inlog[Len(inlog)].name = "on_error") =>
              Count(Handling(LastRecvBefore(Len(inlog))), IsErrorPush) = 0

\* on_error has returned for one error message, whose ErrorFrame was then
\* pushed, and the loop is inside on_error for a second one
C37_Witness ==
    /\ "on_error" \in callbacks
    /\ task_pc = "callback"
    /\ inlog[Len(inlog)] = Callback("on_error", [description |-> Str("Unknown error")])
    /\ \E k \in DOMAIN inlog :
          /\ k > 1
          /\ inlog[k] = PushFrame(ErrorFrame(Str("boom")))
          /\ inlog[k - 1] = CallbackEnd("returned")
    /\ Count(inlog, IsErrorPush) = 1

---------------------------------------------------------------------------
(* C38 *)

LoopRunning == task_pc \in {"iter", "callback"}
CancelFrameEmitted == task_pc = "done" /\ Count(inlog, IsCancelPush) = 1

=============================================================================
